---- MODULE Spec2Model ----
(***************************************************************************)
(* check_restic_health_check.py: a Nagios plugin that runs `restic check`  *)
(* once and maps the outcome to OK / CRITICAL / UNKNOWN.                   *)
(*                                                                         *)
(* The model follows one ResticHealthCheck object through the generator   *)
(* probe() (two segments, split at its yield), the context's evaluate(),   *)
(* and the summary's ok()/problem(), driven by the loop check.main() runs  *)
(* (for metric in resource.probe(): evaluate; except CheckError: Unknown;  *)
(* then render the summary; any other exception ends in @guarded).         *)
(*                                                                         *)
(* Python values: an Optional[str] is None == <<>> or Some(v) == <<v>>;    *)
(* bytes are sequences of integers 0..255; decoded text is a sequence of   *)
(* code points.                                                            *)
(***************************************************************************)
EXTENDS Integers, Sequences, FiniteSets, TLC

VARIABLES
    self,       \* the ResticHealthCheck object: restic_bin, repo, password_file, sudo, stderr
    environ,    \* os.environ restricted to the three RESTIC_* variables
    tool,       \* what the external tool does when launched in this run
    pc,         \* position of the generator probe()
    cmd,        \* probe()'s local cmd (the argv handed to subprocess.check_output)
    spawned,    \* number of subprocesses launched in this run
    metrics,    \* the metrics probe() has yielded in this run
    raised,     \* the exception probe() raised: None or Some([type, msg])
    hpc,        \* position of the harness loop (check.main)
    results,    \* the harness's Results container, in iteration order
    renderer,   \* which summary method produced the output: "none", "ok", "problem"
    output,     \* the status line printed
    exitcode,   \* the process's exit code (-1 while running)
    last        \* the previous run of the same command line, when this run replays it

vars == <<self, environ, tool, pc, cmd, spawned, metrics, raised, hpc, results,
          renderer, output, exitcode, last>>

\* ---------------------------------------------------------------- bounds
\* Longest captured output, in bytes.
MaxOut == 2
\* Most results handed to the summary at once.
MaxResults == 3

\* ---------------------------------------------------------------- Python values
None == <<>>
Some(v) == <<v>>

\* bool(x) of an Optional[str]: None and '' are false.
Truthy(o) == o # None /\ o[1] # ""

\* '%s' % x of an Optional[str].
Str(o) == IF o = None THEN "None" ELSE o[1]

\* sep.join(seq)
RECURSIVE Join(_, _)
Join(seq, sep) ==
    IF seq = <<>> THEN ""
    ELSE IF Len(seq) = 1 THEN seq[1]
    ELSE seq[1] \o sep \o Join(Tail(seq), sep)

\* bytes.decode(): strict UTF-8.  [ok |-> FALSE] stands for UnicodeDecodeError.
DecodeFail == [ok |-> FALSE, text |-> <<>>]

Utf8Len(b) ==
    IF b < 128 THEN 1
    ELSE IF b >= 194 /\ b <= 223 THEN 2
    ELSE IF b >= 224 /\ b <= 239 THEN 3
    ELSE IF b >= 240 /\ b <= 244 THEN 4
    ELSE 0

Utf8Second(b) ==
    IF b = 224 THEN 160..191
    ELSE IF b = 237 THEN 128..159
    ELSE IF b = 240 THEN 144..191
    ELSE IF b = 244 THEN 128..143
    ELSE 128..191

Utf8Lead(b, n) ==
    IF n = 1 THEN b ELSE IF n = 2 THEN b - 192 ELSE IF n = 3 THEN b - 224 ELSE b - 240

RECURSIVE Utf8Cont(_, _, _)
Utf8Cont(acc, bs, i) ==
    IF i > Len(bs) THEN acc ELSE Utf8Cont(acc * 64 + (bs[i] - 128), bs, i + 1)

RECURSIVE decode(_)
decode(bs) ==
    IF bs = <<>> THEN [ok |-> TRUE, text |-> <<>>]
    ELSE LET b == Head(bs)
             n == Utf8Len(b)
         IN  IF n = 0 \/ Len(bs) < n THEN DecodeFail
             ELSE IF n >= 2 /\ bs[2] \notin Utf8Second(b) THEN DecodeFail
             ELSE IF \E i \in 3..n : bs[i] \notin 128..191 THEN DecodeFail
             ELSE LET rest == decode(SubSeq(bs, n + 1, Len(bs)))
                      cp == Utf8Cont(Utf8Lead(b, n), SubSeq(bs, 1, n), 2)
                  IN  IF rest.ok THEN [ok |-> TRUE, text |-> <<cp>> \o rest.text]
                      ELSE DecodeFail

\* ---------------------------------------------------------------- inputs
Bins == {"restic", "/usr/bin/restic"}
Repos == {None, Some(""), Some("r1")}
PasswordFiles == {None, Some(""), Some("/p")}
EnvRepos == {None, Some(""), Some("r2")}
EnvPasswords == {None, Some("s")}
EnvPasswordFiles == {None, Some("/e")}

\* 'A', and the two bytes of U+00E9: alone neither 0xC3 nor 0xA9 is valid UTF-8.
Bytes == {65, 195, 169}
ByteSeqs == UNION {[1..n -> Bytes] : n \in 0..MaxOut}
ExitCodes == {0, 1, 2}
\* str(e) of the OSError raised when the binary cannot be launched.
OSErrors == {"[Errno 2] No such file or directory", "[Errno 13] Permission denied"}

ToolOutcomes ==
    [launch : {"ok"}, rc : ExitCodes, output : ByteSeqs]
    \cup [launch : OSErrors, rc : {0}, output : {<<>>}]

NoTool == [launch |-> "not launched", rc |-> 0, output |-> <<>>]
NoRun == [tool |-> NoTool, exitcode |-> -1, stderr |-> None]

\* ---------------------------------------------------------------- ResticHealthCheck
__init__(restic_bin, repo, password_file, sudo) ==
    [restic_bin |-> restic_bin, repo |-> repo, password_file |-> password_file,
     sudo |-> sudo, stderr |-> None]

RepoMsg == "Please specify repository location (-r, --repo or $RESTIC_REPOSITORY)"
PasswordMsg == "Please specify password or its location (-p, --password-file, $RESTIC_PASSWORD or $RESTIC_PASSWORD_FILE)"

\* config_error with `and` between the two password variables: one of them
\* alone no longer counts as a credential.
config_error_and(s, env) ==
    IF ~Truthy(s.repo) /\ ~Truthy(env.RESTIC_REPOSITORY) THEN Some(RepoMsg)
    ELSE IF ~Truthy(s.password_file)
            /\ ~(Truthy(env.RESTIC_PASSWORD) /\ Truthy(env.RESTIC_PASSWORD_FILE))
         THEN Some(PasswordMsg)
    ELSE None

\* The two checks probe() opens with: None, or Some(message of the CheckError).
config_error(s, env) ==
    IF ~Truthy(s.repo) /\ ~Truthy(env.RESTIC_REPOSITORY) THEN Some(RepoMsg)
    ELSE IF ~Truthy(s.password_file)
            /\ ~(Truthy(env.RESTIC_PASSWORD) \/ Truthy(env.RESTIC_PASSWORD_FILE))
         THEN Some(PasswordMsg)
    ELSE None

\* build_cmd with the two optional parts appended in the other order.
build_cmd_swapped(s) ==
    LET base == <<s.restic_bin, "check", "--quiet", "--no-lock">>
        c1 == IF s.sudo THEN <<"sudo">> \o base ELSE base
        c2 == IF Truthy(s.password_file)
              THEN c1 \o <<"--password-file", s.password_file[1]>> ELSE c1
    IN  IF Truthy(s.repo) THEN c2 \o <<"--repo", s.repo[1]>> ELSE c2

build_cmd(s) ==
    LET base == <<s.restic_bin, "check", "--quiet", "--no-lock">>
        c1 == IF s.sudo THEN <<"sudo">> \o base ELSE base
        c2 == IF Truthy(s.repo) THEN c1 \o <<"--repo", s.repo[1]>> ELSE c1
    IN  IF Truthy(s.password_file)
        THEN c2 \o <<"--password-file", s.password_file[1]>> ELSE c2

\* exec_error_msg without the OS error text.
exec_error_msg_no_oserror(c, e) == "Failed to run " \o Join(c, " ")

exec_error_msg(c, e) == "Failed to run " \o Join(c, " ") \o ": " \o e

Metric(name, value) == [name |-> name, value |-> value, context |-> "health_check"]


\* ---------------------------------------------------------------- ResticHealthCheckContext
\* evaluate with its two returns exchanged.
evaluate_inverted(metric) == IF metric.value THEN "Critical" ELSE "Ok"

evaluate(metric) == IF metric.value THEN "Ok" ELSE "Critical"

\* metric.resource is the object that yielded the metric; read at the time of the call.
describe(metric) == self.stderr

\* ---------------------------------------------------------------- ResticSummary
\* Both methods read r.metric.name of every result they are given; a result
\* without a metric makes that read raise AttributeError.
ok(rs) ==
    IF \E i \in DOMAIN rs : rs[i].metric = None
    THEN [exc |-> "AttributeError", text |-> ""]
    ELSE [exc |-> "",
          text |-> "Repository "
                   \o Join([i \in DOMAIN rs |-> Str(rs[i].metric[1].name) \o " health check OK"], ", ")]

problem(rs) ==
    IF \E i \in DOMAIN rs : rs[i].metric = None
    THEN [exc |-> "AttributeError", text |-> ""]
    ELSE [exc |-> "",
          text |-> "Repository "
                   \o Join([i \in DOMAIN rs |-> Str(rs[i].metric[1].name) \o " health check FAILED"], ", ")
                   \o " failed"]

\* ---------------------------------------------------------------- the generator probe()
CheckError(msg) == Some([type |-> "CheckError", msg |-> msg])

\* The outcomes the tool may show in this run: any, unless the run replays the
\* previous one against the same tool state.
Outcomes == IF last = NoRun THEN ToolOutcomes ELSE {last.tool}

\* First segment: from the call of next() to the first yield or raise.
probe ==
    /\ hpc = "next" /\ pc = "created"
    /\ LET err == config_error(self, environ) IN
       IF err # None
       THEN /\ raised' = CheckError(err[1])
            /\ pc' = "raised"
            /\ UNCHANGED <<cmd, spawned, tool, metrics, hpc>>
       ELSE \E t \in Outcomes :
            /\ tool' = t
            /\ cmd' = build_cmd(self)
            /\ spawned' = spawned + 1
            /\ IF t.launch # "ok"
               THEN /\ raised' = CheckError(exec_error_msg(cmd', t.launch))
                    /\ pc' = "raised"
                    /\ UNCHANGED <<metrics, hpc>>
               ELSE IF t.rc # 0
               THEN /\ metrics' = Append(metrics, Metric(self.repo, FALSE))
                    /\ pc' = "yield58"
                    /\ hpc' = "body"
                    /\ UNCHANGED raised
               ELSE /\ metrics' = Append(metrics, Metric(self.repo, TRUE))
                    /\ pc' = "yield65"
                    /\ hpc' = "body"
                    /\ UNCHANGED raised
    /\ UNCHANGED <<self, environ, results, renderer, output, exitcode, last>>

\* probe_resume that runs the command once more after a failure.
probe_resume_retry ==
    /\ hpc = "next" /\ pc \in {"yield58", "yield65"}
    /\ spawned' = IF pc = "yield58" THEN spawned + 1 ELSE spawned
    /\ self' = IF pc = "yield58" /\ decode(tool.output).ok
               THEN [self EXCEPT !.stderr = Some(decode(tool.output).text)] ELSE self
    /\ raised' = IF pc = "yield58" /\ ~decode(tool.output).ok
                 THEN Some([type |-> "UnicodeDecodeError", msg |-> ""]) ELSE raised
    /\ pc' = IF raised' # None THEN "raised" ELSE "returned"
    /\ hpc' = IF raised' # None THEN hpc ELSE "summary"
    /\ UNCHANGED <<environ, tool, cmd, metrics, results, renderer, output, exitcode, last>>

\* Second segment: the generator is resumed after its yield and runs to its end.
probe_resume ==
    /\ hpc = "next" /\ pc \in {"yield58", "yield65"}
    /\ IF pc = "yield58"
       THEN LET d == decode(tool.output) IN
            IF d.ok
            THEN /\ self' = [self EXCEPT !.stderr = Some(d.text)]
                 /\ pc' = "returned"
                 /\ hpc' = "summary"
                 /\ UNCHANGED raised
            ELSE /\ raised' = Some([type |-> "UnicodeDecodeError", msg |-> ""])
                 /\ pc' = "raised"
                 /\ UNCHANGED <<self, hpc>>
       ELSE /\ pc' = "returned"
            /\ hpc' = "summary"
            /\ UNCHANGED <<self, raised>>
    /\ UNCHANGED <<environ, tool, cmd, spawned, metrics, results, renderer, output,
                   exitcode, last>>

\* ---------------------------------------------------------------- the harness (check.main)
Result(state, hint, metric) == [state |-> state, hint |-> hint, metric |-> metric]

StateCode(st) == IF st = "Ok" THEN 0 ELSE IF st = "Critical" THEN 2 ELSE 3

\* Results.most_significant_state
MostSignificant(rs) ==
    IF \E i \in DOMAIN rs : rs[i].state = "Unknown" THEN "Unknown"
    ELSE IF \E i \in DOMAIN rs : rs[i].state = "Critical" THEN "Critical"
    ELSE "Ok"

\* The loop body: the yielded metric is evaluated by its context and the result kept.
evaluate_metric ==
    /\ hpc = "body"
    /\ LET m == metrics[Len(metrics)] IN
       results' = Append(results, Result(evaluate(m), None, Some(m)))
    /\ hpc' = "next"
    /\ UNCHANGED <<self, environ, tool, pc, cmd, spawned, metrics, raised, renderer,
                   output, exitcode, last>>

\* except CheckError: the error becomes an Unknown result that has no metric.
except_CheckError ==
    /\ hpc = "next" /\ pc = "raised" /\ raised[1].type = "CheckError"
    /\ results' = Append(results, Result("Unknown", Some(raised[1].msg), None))
    /\ hpc' = "summary"
    /\ UNCHANGED <<self, environ, tool, pc, cmd, spawned, metrics, raised, renderer,
                   output, exitcode, last>>

\* @guarded: any other exception ends the run as UNKNOWN.
guarded ==
    /\ hpc = "next" /\ pc = "raised" /\ raised[1].type # "CheckError"
    /\ output' = "UNKNOWN: " \o raised[1].type
    /\ exitcode' = StateCode("Unknown")
    /\ hpc' = "exit"
    /\ UNCHANGED <<self, environ, tool, pc, cmd, spawned, metrics, raised, results,
                   renderer, last>>

\* The status line: summary.ok when every result is Ok, summary.problem otherwise;
\* an exception of the summary method ends in @guarded too.
summarize ==
    /\ hpc = "summary"
    /\ LET st == MostSignificant(results)
           r == IF st = "Ok" THEN ok(results) ELSE problem(results)
       IN  /\ renderer' = IF st = "Ok" THEN "ok" ELSE "problem"
           /\ IF r.exc # ""
              THEN /\ output' = "UNKNOWN: " \o r.exc
                   /\ exitcode' = StateCode("Unknown")
              ELSE /\ output' = r.text
                   /\ exitcode' = StateCode(st)
    /\ hpc' = "exit"
    /\ UNCHANGED <<self, environ, tool, pc, cmd, spawned, metrics, raised, results, last>>

\* A new run of the plugin with the same command line and environment, around
\* the resource object obj.  With replay the tool is in the state it was in
\* during the run that just ended.
Restart(obj) ==
    /\ hpc = "exit"
    /\ self' = obj
    /\ \E replay \in BOOLEAN :
         last' = IF replay
                 THEN [tool |-> tool, exitcode |-> exitcode, stderr |-> self.stderr]
                 ELSE NoRun
    /\ tool' = NoTool
    /\ pc' = "created"
    /\ cmd' = <<>>
    /\ spawned' = 0
    /\ metrics' = <<>>
    /\ raised' = None
    /\ hpc' = "next"
    /\ results' = <<>>
    /\ renderer' = "none"
    /\ output' = ""
    /\ exitcode' = -1
    /\ UNCHANGED environ

\* main that keeps the resource object of the run before.
main_reuse == Restart(self)

\* main(): a new process, which constructs a new ResticHealthCheck.
main == Restart(__init__(self.restic_bin, self.repo, self.password_file, self.sudo))

Init ==
    /\ \E b \in Bins, r \in Repos, p \in PasswordFiles, s \in BOOLEAN :
         self = __init__(b, r, p, s)
    /\ \E er \in EnvRepos, ep \in EnvPasswords, ef \in EnvPasswordFiles :
         environ = [RESTIC_REPOSITORY |-> er, RESTIC_PASSWORD |-> ep,
                    RESTIC_PASSWORD_FILE |-> ef]
    /\ tool = NoTool
    /\ pc = "created"
    /\ cmd = <<>>
    /\ spawned = 0
    /\ metrics = <<>>
    /\ raised = None
    /\ hpc = "next"
    /\ results = <<>>
    /\ renderer = "none"
    /\ output = ""
    /\ exitcode = -1
    /\ last = NoRun

Next ==
    \/ probe
    \/ evaluate_metric
    \/ probe_resume
    \/ except_CheckError
    \/ guarded
    \/ summarize
    \/ main

Spec == Init /\ [][Next]_vars


\* ---------------------------------------------------------------- the summary alone
\* ResticSummary's two methods applied to every short list of results that
\* carry a metric.
Names == {"a", "b"}
SummaryResults ==
    {Result(evaluate(Metric(Some(n), v)), None, Some(Metric(Some(n), v))) :
        n \in Names, v \in BOOLEAN}

InitSummary ==
    /\ self = __init__("restic", None, None, FALSE)
    /\ environ = [RESTIC_REPOSITORY |-> None, RESTIC_PASSWORD |-> None,
                  RESTIC_PASSWORD_FILE |-> None]
    /\ tool = NoTool
    /\ pc = "created"
    /\ cmd = <<>>
    /\ spawned = 0
    /\ metrics = <<>>
    /\ raised = None
    /\ hpc = "reporter"
    /\ results \in UNION {[1..n -> SummaryResults] : n \in 0..MaxResults}
    /\ renderer = "none"
    /\ output = ""
    /\ exitcode = -1
    /\ last = NoRun

summary_ok ==
    /\ hpc = "reporter" /\ renderer = "none"
    /\ renderer' = "ok"
    /\ output' = ok(results).text
    /\ UNCHANGED <<self, environ, tool, pc, cmd, spawned, metrics, raised, hpc,
                   results, exitcode, last>>

summary_problem ==
    /\ hpc = "reporter" /\ renderer = "none"
    /\ renderer' = "problem"
    /\ output' = problem(results).text
    /\ UNCHANGED <<self, environ, tool, pc, cmd, spawned, metrics, raised, hpc,
                   results, exitcode, last>>

NextSummary == summary_ok \/ summary_problem

SpecSummary == InitSummary /\ [][NextSummary]_vars

\* ================================================================ claims
\* What the claims speak of, stated from their own words.
RepoResolvable == Truthy(self.repo) \/ Truthy(environ.RESTIC_REPOSITORY)
CredentialResolvable ==
    \/ Truthy(self.password_file)
    \/ Truthy(environ.RESTIC_PASSWORD)
    \/ Truthy(environ.RESTIC_PASSWORD_FILE)
ConfigValid == RepoResolvable /\ CredentialResolvable

IsConfigurationError ==
    /\ raised # None
    /\ raised[1].type = "CheckError"
    /\ raised[1].msg \in {RepoMsg, PasswordMsg}

ExpectedArgv ==
    (IF self.sudo THEN <<"sudo">> ELSE <<>>)
    \o <<self.restic_bin, "check", "--quiet", "--no-lock">>
    \o (IF Truthy(self.repo) THEN <<"--repo", self.repo[1]>> ELSE <<>>)
    \o (IF Truthy(self.password_file)
        THEN <<"--password-file", self.password_file[1]>> ELSE <<>>)

EnvValues ==
    {environ[k][1] : k \in {k \in DOMAIN environ : Truthy(environ[k])}}

ResolvedRepo == IF Truthy(self.repo) THEN self.repo ELSE environ.RESTIC_REPOSITORY

ExitedZero == tool.launch = "ok" /\ tool.rc = 0
ExitedNonZero == tool.launch = "ok" /\ tool.rc # 0
LaunchFailed == tool.launch \in OSErrors

\* C1: once probe() has started, it has raised a configuration error exactly
\* when the repository or the credential is unresolvable (a missing credential
\* alone is enough, repository present or not), and a configuration error
\* leaves no subprocess spawned and no metric produced.
C1_ConfigurationError ==
    /\ pc # "created" => (IsConfigurationError <=> ~ConfigValid)
    /\ pc # "created" /\ ~CredentialResolvable => IsConfigurationError
    /\ IsConfigurationError => spawned = 0 /\ metrics = <<>> /\ cmd = <<>>

C1_Witness ==
    /\ hpc = "exit" /\ IsConfigurationError
    /\ RepoResolvable /\ ~CredentialResolvable
    /\ spawned = 0

\* C2: the argv handed to the subprocess is [sudo]? <bin> check --quiet
\* --no-lock [--repo <repo>]? [--password-file <path>]? in this order, the
\* optional parts present exactly when given explicitly, and no value that
\* comes from the environment is in it.
C2_Argv ==
    spawned > 0 =>
        /\ cmd = ExpectedArgv
        /\ \A i \in DOMAIN cmd : cmd[i] \notin EnvValues

C2_Witness ==
    /\ spawned = 1
    /\ cmd = <<"sudo", "restic", "check", "--quiet", "--no-lock", "--repo", "r1",
               "--password-file", "/p">>
    /\ Truthy(environ.RESTIC_REPOSITORY)

\* C3: a run whose subprocess exited 0 ends with exactly one metric, healthy,
\* no diagnostic text, classified Ok, rendered by the all-pass summary as
\* '<name> health check OK' and never by the problem summary.
C3_ExitZero ==
    /\ ExitedZero => renderer # "problem"
    /\ ExitedZero /\ hpc = "exit" =>
        /\ metrics = <<Metric(self.repo, TRUE)>>
        /\ describe(metrics[1]) = None
        /\ results = <<Result("Ok", None, Some(metrics[1]))>>
        /\ renderer = "ok"
        /\ output = "Repository " \o Str(metrics[1].name) \o " health check OK"
        /\ exitcode = 0

C3_Witness == ExitedZero /\ hpc = "exit" /\ renderer = "ok" /\ Len(metrics) = 1

\* C4: a run whose subprocess exited non-zero with output T ends with exactly
\* one metric, unhealthy, with diagnostic text T, classified Critical, with
\* '<name> health check FAILED' in the problem summary, and never as UNKNOWN.
C4_ExitNonZero ==
    ExitedNonZero /\ hpc = "exit" =>
        /\ metrics = <<Metric(self.repo, FALSE)>>
        /\ describe(metrics[1]) = Some(decode(tool.output).text)
        /\ results = <<Result("Critical", None, Some(metrics[1]))>>
        /\ renderer = "problem"
        /\ output = "Repository " \o Str(metrics[1].name) \o " health check FAILED failed"
        /\ exitcode = StateCode("Critical")

\* The same for the outputs that are valid UTF-8; it holds.
C4_ValidUtf8 == decode(tool.output).ok => C4_ExitNonZero

\* C5: when the subprocess cannot be launched, probe() raises an error whose
\* message holds the attempted command line and the OS error text, no metric
\* is produced, and the run ends in UNKNOWN, never in OK or CRITICAL.
C5_LaunchFailure ==
    LaunchFailed =>
        /\ raised = CheckError("Failed to run " \o Join(ExpectedArgv, " ") \o ": "
                               \o tool.launch)
        /\ metrics = <<>>
        /\ exitcode \notin {StateCode("Ok"), StateCode("Critical")}
        /\ hpc = "exit" => exitcode = StateCode("Unknown")

C5_Witness ==
    /\ LaunchFailed /\ hpc = "exit" /\ exitcode = StateCode("Unknown")
    /\ self.sudo /\ Truthy(self.repo)

\* C6: the problem summary renders '<name> health check FAILED' only for the
\* results that are not Ok, joined with ', ' inside 'Repository ... failed';
\* the all-pass summary renders '<name> health check OK' for every result,
\* joined with ', ' after 'Repository '.
NotOk(rs) == SelectSeq(rs, LAMBDA r : r.state # "Ok")
Lines(rs, suffix) == [i \in DOMAIN rs |-> Str(rs[i].metric[1].name) \o suffix]

C6_Summaries ==
    /\ renderer = "problem" =>
         output = "Repository " \o Join(Lines(NotOk(results), " health check FAILED"), ", ")
                  \o " failed"
    /\ renderer = "ok" =>
         output = "Repository " \o Join(Lines(results, " health check OK"), ", ")

\* C7: every metric probe() produces is named by the repository identifier of
\* the run, explicit or resolved from RESTIC_REPOSITORY, and is never unnamed.
C7_MetricName ==
    \A i \in DOMAIN metrics :
        /\ metrics[i].name # None
        /\ metrics[i].name = ResolvedRepo

C9_DescriptionFromYield ==
    \A i \in DOMAIN metrics :
        ~metrics[i].value =>
            /\ describe(metrics[i]) # None
            /\ describe(metrics[i]) = Some(decode(tool.output).text)

\* C10: a run spawns at most one subprocess, exactly one by its end when the
\* configuration is valid, and yields at most one metric.
C10_OneSubprocess ==
    /\ spawned <= 1
    /\ Len(metrics) <= 1
    /\ hpc = "exit" /\ ConfigValid => spawned = 1

C10_Witness ==
    /\ hpc = "exit" /\ spawned = 1 /\ ExitedNonZero /\ Len(metrics) = 1
    /\ last # NoRun

====
